---- MODULE Spec2Model ----
(***************************************************************************)
(* State-machine model of the demonstration programs of the repository     *)
(* that exercise the Shape / Oval / Circle family (day-11), the raw owning *)
(* pointer of day-11/06 and the dangling-pointer demonstration of day-3.   *)
(* `args` keeps the constructor arguments of the static-binding program as *)
(* they were given.                                                        *)
(*                                                                         *)
(* Every main() is a straight-line program; its literals (names, radii,    *)
(* the contents of the arrays) are the inputs, drawn from small sets by    *)
(* the first step of each program.  `prog` says which main() is running,   *)
(* `pc` where it is.                                                       *)
(***************************************************************************)
EXTENDS Integers, Sequences, FiniteSets, TLC

VARIABLES prog, pc, idx, objs, shapes1, shapes3, shapes4, heap, released,
          out, ptr, acc, args

vars == <<prog, pc, idx, objs, shapes1, shapes3, shapes4, heap, released,
          out, ptr, acc, args>>

----------------------------------------------------------------------------
(* Bounds of the model *)

\* largest number of stack objects / slots of the value and raw-pointer arrays
MaxSlots == 2
\* largest number of slots of the shared-handle array
MaxShared == 2
\* largest length of the generated strings the search loops run on
MaxStr == 3

Names == {"A", "B"}
Dims == {2, 3}
IntVals == {82, 87}

\* the null pointer; heap addresses are 1, 2, ...
Null == 0
\* the dimension fields a Shape sub-object does not have
NoDim == 0

Classes == {"Shape", "Oval", "Circle"}

\* the radii the static-binding program passes to the constructors:
\* negative, zero and positive ones
ArgDims == {-1, 0, 2, 3}

----------------------------------------------------------------------------
(* The class family (shape.h, oval.h, circle.h) *)

\* Shape(std::string_view description)
MkShape(n) == [cls |-> "Shape", name |-> n, xr |-> NoDim, yr |-> NoDim]

\* Oval(double x_radius, double y_radius, std::string_view description)
MkOval(x, y, n) == [cls |-> "Oval", name |-> n, xr |-> x, yr |-> y]

\* Circle(double radius, std::string_view description) : Oval(radius, radius, description)
MkCircle(r, n) == [cls |-> "Circle", name |-> n, xr |-> r, yr |-> r]

\* Shape(): the default constructor names the object "unnamed"
ShapeDefault == MkShape("unnamed")

\* every object main() can construct
AllObjects ==
    {MkShape(n) : n \in Names}
      \cup {MkOval(d[1], d[2], n) : d \in Dims \X Dims, n \in Names}
      \cup {MkCircle(r, n) : r \in Dims, n \in Names}

\* the objects the arrays of the collections program are filled from: every
\* class with either name, Ovals with unequal radii, Circles of either radius
Samples ==
    {MkShape("A"), MkShape("B"), MkOval(2, 3, "A"), MkOval(3, 2, "B"),
     MkCircle(2, "A"), MkCircle(3, "B")}

\* the inheritance chain Circle -> Oval -> Shape : is class d the class b or derived from it
IsBaseOf(b, d) ==
    \/ b = d
    \/ b = "Shape"
    \/ b = "Oval" /\ d = "Circle"

\* "Shape::draw() called. Drawing <name>"
ShapeDraw(o) == <<"Shape::draw", o.name>>

\* "Oval::draw() called. Drawing <name> with m_x_radius : <x> and m_y_radius : <y>"
OvalDraw(o) == <<"Oval::draw", o.name, o.xr, o.yr>>

\* "Circle::draw() called. Drawing <name> with radius : <r>"
CircleDraw(o) == <<"Circle::draw", o.name, o.xr>>

\* the body of draw() of class c run on object o
DrawBody(c, o) ==
    CASE c = "Shape" -> ShapeDraw(o)
      [] c = "Oval" -> OvalDraw(o)
      [] c = "Circle" -> CircleDraw(o)

----------------------------------------------------------------------------
(* Language semantics used by the programs *)

\* variant: the copy keeps the whole derived object
SliceCopy_keep(o) == o

\* Shape s = derived;  the copy constructor of Shape copies the Shape
\* sub-object only: the result is a complete object of class Shape
SliceCopy(o) == MkShape(o.name)

\* which class's draw() a call through a handle of static type st runs on an
\* object of dynamic class dyn: draw() is virtual and overridden by every class
Dispatch(st, dyn) == dyn

\* p->draw() / r.draw() through a handle of static type st bound to object o
CallDraw(st, o) == DrawBody(Dispatch(st, o.cls), o)

\* a pointer variable that holds no address
NoHandle == [st |-> "none", addr |-> Null]

\* one entry of the output log: what was called through which handle
LogEntry(via, slot, text) == [via |-> via, slot |-> slot, text |-> text]

\* is the block at address a of heap h allocated and not yet released
Live(h, a) == a # Null /\ a \in 1..Len(h) /\ h[a].alive

\* one entry of the access log: handle p holding address a was about to be
\* used; live says whether its block was live, outcome what the program did
Access(p, a, h, outcome) == [p |-> p, addr |-> a, live |-> Live(h, a), outcome |-> outcome]

\* one entry of the release log: block a, owned through slot k, was released
Release(a, k) == [addr |-> a, slot |-> k]

----------------------------------------------------------------------------
(* Initial state: a program is chosen, nothing has run yet *)

Progs == {"collections", "overloading", "slicing", "virtual", "dangling", "static",
          "newfails", "dynalloc", "search", "reference"}

Init ==
    /\ prog \in Progs
    /\ pc = "start"
    /\ idx = 1
    /\ objs = <<>>
    /\ shapes1 = <<>>
    /\ shapes3 = <<>>
    /\ shapes4 = <<>>
    /\ heap = <<>>
    /\ released = <<>>
    /\ out = <<>>
    /\ ptr = NoHandle
    /\ acc = <<>>
    /\ args = <<>>

----------------------------------------------------------------------------
(* day-11/02_code/04_PolymorphicObjectsStoredInCollections/main.cpp *)

\* lines 10-15: the stack objects circle1, oval1, ...; args keeps the objects
\* as they were constructed
Construct04 ==
    /\ prog = "collections" /\ pc = "start"
    /\ \E n \in 1..MaxSlots : \E s \in [1..n -> Samples] : objs' = s
    /\ args' = objs'
    /\ pc' = "slice"
    /\ UNCHANGED <<prog, idx, shapes1, shapes3, shapes4, heap, released, out, ptr, acc>>

\* variant: storing a derived object in a Shape slot is refused
Populate1_checked ==
    /\ prog = "collections" /\ pc = "slice"
    /\ IF \A k \in 1..Len(objs) : objs[k].cls = "Shape"
       THEN /\ shapes1' = [k \in 1..Len(objs) |-> SliceCopy(objs[k])]
            /\ pc' = "iter1"
            /\ out' = out
       ELSE /\ out' = Append(out, LogEntry("error", 0, <<"derived object in a Shape slot">>))
            /\ pc' = "rejected"
            /\ shapes1' = shapes1
    /\ idx' = 1
    /\ UNCHANGED <<prog, args, objs, shapes3, shapes4, heap, released, ptr, acc>>

\* variant: the slots are move-constructed, which empties the name of the source
Populate1_moving ==
    /\ prog = "collections" /\ pc = "slice"
    /\ shapes1' = [k \in 1..Len(objs) |-> SliceCopy(objs[k])]
    /\ objs' = [k \in 1..Len(objs) |-> [objs[k] EXCEPT !.name = ""]]
    /\ idx' = 1
    /\ pc' = "iter1"
    /\ UNCHANGED <<prog, args, shapes3, shapes4, heap, released, out, ptr, acc>>

\* line 20: Shape shapes1[]{circle1, oval1, ...}
Populate1 ==
    /\ prog = "collections" /\ pc = "slice"
    /\ shapes1' = [k \in 1..Len(objs) |-> SliceCopy(objs[k])]
    /\ idx' = 1
    /\ pc' = "iter1"
    /\ UNCHANGED <<prog, args, objs, shapes3, shapes4, heap, released, out, ptr, acc>>

\* lines 22-27: for (Shape &s : shapes1) s.draw();
Iterate1 ==
    /\ prog = "collections" /\ pc = "iter1"
    /\ idx <= Len(shapes1)
    /\ out' = Append(out, LogEntry("value", idx, CallDraw("Shape", shapes1[idx])))
    /\ idx' = idx + 1
    /\ UNCHANGED <<prog, args, pc, objs, shapes1, shapes3, shapes4, heap, released, ptr, acc>>

\* line 36: Shape *shapes3[]{&circle1, &oval1, ...}
Populate3 ==
    /\ prog = "collections" /\ pc = "iter1"
    /\ idx > Len(shapes1)
    /\ shapes3' = [k \in 1..Len(objs) |-> k]
    /\ idx' = 1
    /\ pc' = "iter3"
    /\ UNCHANGED <<prog, args, objs, shapes1, shapes4, heap, released, out, ptr, acc>>

\* variant: shape_ptr->Shape::draw();  the qualified call is not dispatched
Iterate3_qualified ==
    /\ prog = "collections" /\ pc = "iter3"
    /\ idx <= Len(shapes3)
    /\ out' = Append(out, LogEntry("raw", idx, DrawBody("Shape", objs[shapes3[idx]])))
    /\ idx' = idx + 1
    /\ UNCHANGED <<prog, args, pc, objs, shapes1, shapes3, shapes4, heap, released, ptr, acc>>

\* lines 37-42: for (Shape *shape_ptr : shapes3) shape_ptr->draw();
Iterate3 ==
    /\ prog = "collections" /\ pc = "iter3"
    /\ idx <= Len(shapes3)
    /\ out' = Append(out, LogEntry("raw", idx, CallDraw("Shape", objs[shapes3[idx]])))
    /\ idx' = idx + 1
    /\ UNCHANGED <<prog, args, pc, objs, shapes1, shapes3, shapes4, heap, released, ptr, acc>>

\* variant: the last handle does not release the block
DropRef_leak(h, a) == h

\* ~shared_ptr(): the handle gives up its reference to block a
DropRef(h, a) == [h EXCEPT ![a].rc = @ - 1, ![a].alive = (h[a].rc > 1)]

\* the release log after the handle of slot k to block a of heap h was destroyed:
\* the last handle releases the block
LogRelease(r, h, a, k) == IF h[a].rc = 1 THEN Append(r, Release(a, k)) ELSE r

\* std::make_shared<T>(...): a fresh heap block holding o, owned by one handle
MakeShared(h, o) == Append(h, [obj |-> o, rc |-> 1, alive |-> TRUE])

\* lines 51-53: std::shared_ptr<Shape> shapes4[]{std::make_shared<Circle>(...), ...}
\* one element per step; the element is move-constructed from the temporary
\* handle make_shared returns, so the block's use count stays 1
Populate4 ==
    /\ prog = "collections"
    /\ \/ pc = "iter3" /\ idx > Len(shapes3)
       \/ pc = "make4" /\ Len(shapes4) < MaxShared
    /\ \E o \in Samples :
         /\ heap' = MakeShared(heap, o)
         /\ shapes4' = Append(shapes4, Len(heap) + 1)
    /\ pc' = "make4"
    /\ idx' = 1
    /\ UNCHANGED <<prog, args, objs, shapes1, shapes3, released, out, ptr, acc>>

\* variant: Shape s = *sp; s.draw();  the call goes through a by-value copy
Iterate4_sliced ==
    /\ prog = "collections"
    /\ pc \in {"make4", "iter4"}
    /\ idx <= Len(shapes4)
    /\ out' = Append(out, LogEntry("shared", idx, CallDraw("Shape", SliceCopy(heap[shapes4[idx]].obj))))
    /\ acc' = Append(acc, Access(idx, shapes4[idx], heap, "deref"))
    /\ idx' = idx + 1
    /\ pc' = "iter4"
    /\ UNCHANGED <<prog, args, objs, shapes1, shapes3, shapes4, heap, released, ptr>>

\* variant: the loop walks the array from its last element to its first
Iterate4_reversed ==
    /\ prog = "collections"
    /\ pc \in {"make4", "iter4"}
    /\ idx <= Len(shapes4)
    /\ LET k == Len(shapes4) + 1 - idx
       IN /\ out' = Append(out, LogEntry("shared", k, CallDraw("Shape", heap[shapes4[k]].obj)))
          /\ acc' = Append(acc, Access(k, shapes4[k], heap, "deref"))
    /\ idx' = idx + 1
    /\ pc' = "iter4"
    /\ UNCHANGED <<prog, args, objs, shapes1, shapes3, shapes4, heap, released, ptr>>

\* variant: auto s = std::move(shapes4[i]); s->draw();  the handle is moved
\* out of the array and destroyed at the end of the loop body
Iterate4_take ==
    /\ prog = "collections"
    /\ pc \in {"make4", "iter4"}
    /\ idx <= Len(shapes4)
    /\ out' = Append(out, LogEntry("shared", idx, CallDraw("Shape", heap[shapes4[idx]].obj)))
    /\ acc' = Append(acc, Access(idx, shapes4[idx], heap, "deref"))
    /\ heap' = DropRef(heap, shapes4[idx])
    /\ released' = LogRelease(released, heap, shapes4[idx], idx)
    /\ shapes4' = [shapes4 EXCEPT ![idx] = Null]
    /\ idx' = idx + 1
    /\ pc' = "iter4"
    /\ UNCHANGED <<prog, args, objs, shapes1, shapes3, ptr>>

\* lines 54-59: for (auto &s : shapes4) s->draw();
Iterate4 ==
    /\ prog = "collections"
    /\ pc \in {"make4", "iter4"}
    /\ idx <= Len(shapes4)
    /\ out' = Append(out, LogEntry("shared", idx, CallDraw("Shape", heap[shapes4[idx]].obj)))
    /\ acc' = Append(acc, Access(idx, shapes4[idx], heap, "deref"))
    /\ idx' = idx + 1
    /\ pc' = "iter4"
    /\ UNCHANGED <<prog, args, objs, shapes1, shapes3, shapes4, heap, released, ptr>>

\* variant: the elements are destroyed first to last
NextDestroyed_forward(n, k) == n + 1 - k

\* which element of an array of n elements is destroyed when k are left:
\* array elements are destroyed in reverse order of their construction
NextDestroyed(n, k) == k

\* line 63: return 0; the elements of shapes4 are destroyed, one per step
Teardown4 ==
    /\ prog = "collections"
    /\ \/ pc = "iter4" /\ idx > Len(shapes4)
       \/ pc = "teardown4"
    /\ \E k \in {k \in 1..Len(shapes4) : shapes4[k] # Null} : TRUE
    /\ LET live == {k \in 1..Len(shapes4) : shapes4[k] # Null}
           n == Len(shapes4)
           k == NextDestroyed(n, Cardinality(live))
           a == shapes4[k]
       IN /\ heap' = DropRef(heap, a)
          /\ released' = LogRelease(released, heap, a, k)
          /\ shapes4' = [shapes4 EXCEPT ![k] = Null]
    /\ pc' = "teardown4"
    /\ UNCHANGED <<prog, args, idx, objs, shapes1, shapes3, out, ptr, acc>>

\* line 63: return 0; after shapes4, the arrays shapes3, shapes1 and the
\* stack objects go out of scope
Return04 ==
    /\ prog = "collections" /\ pc = "teardown4"
    /\ \A k \in 1..Len(shapes4) : shapes4[k] = Null
    /\ shapes4' = <<>>
    /\ shapes3' = <<>>
    /\ shapes1' = <<>>
    /\ objs' = <<>>
    /\ pc' = "done"
    /\ UNCHANGED <<prog, args, idx, heap, released, out, ptr, acc>>

----------------------------------------------------------------------------
(* day-11/02_code/06_OverloadingOverridingAndHiding/main.cpp *)

\* T *p = new C(...): a fresh heap block holding o, owned by the raw pointer
New(h, o) == Append(h, [obj |-> o, rc |-> 0, alive |-> TRUE])

\* delete p: block a is released
Delete(h, a) == [h EXCEPT ![a].alive = FALSE]

\* variant: every pointer converts, as with a C-style cast
ImplicitConvert_any(from, to) == "ok"

\* To *p = <expression of type From *>: a pointer converts implicitly to a
\* pointer to the same class or to a base class, and to nothing else
ImplicitConvert(from, to) == IF IsBaseOf(to, from) THEN "ok" ELSE "error"

\* Oval::draw(int color_depth, std::string_view color), inherited by Circle
OvalDraw2(o, depth, color) == <<"Oval::draw(int,string)", o.name, depth, color>>

\* Shape::draw(int color_depth), not overridden by Oval
ShapeDraw1(o, depth) == <<"Shape::draw(int)", o.name, depth>>

\* line 18: Oval *shape_ptr2 = new Circle(10, "Circle2");
\* the class of the allocated object is an input; a class that does not
\* convert to Oval * is rejected and the program does not run
New06 ==
    /\ prog = "overloading" /\ pc = "start"
    /\ \E o \in AllObjects :
         IF ImplicitConvert(o.cls, "Oval") = "ok"
         THEN /\ heap' = New(heap, o)
              /\ ptr' = [st |-> "Oval", addr |-> Len(heap) + 1]
              /\ pc' = "l19"
              /\ out' = out
         ELSE /\ out' = Append(out, LogEntry("error", 0, <<"invalid conversion", o.cls, "Oval">>))
              /\ pc' = "rejected"
              /\ UNCHANGED <<heap, ptr>>
    /\ UNCHANGED <<prog, args, idx, objs, shapes1, shapes3, shapes4, released, acc>>

\* line 19: shape_ptr2->draw(45, "Green");
Draw06l19 ==
    /\ prog = "overloading" /\ pc = "l19"
    /\ out' = Append(out, LogEntry("new", ptr.addr, OvalDraw2(heap[ptr.addr].obj, 45, "Green")))
    /\ acc' = Append(acc, Access(2, ptr.addr, heap, "deref"))
    /\ pc' = "l20"
    /\ UNCHANGED <<prog, args, idx, objs, shapes1, shapes3, shapes4, heap, released, ptr>>

\* variant: the delete is forgotten
Delete06_leak ==
    /\ prog = "overloading" /\ pc = "l20"
    /\ pc' = "l26"
    /\ UNCHANGED <<prog, args, idx, objs, shapes1, shapes3, shapes4, heap, released, out, ptr, acc>>

\* line 20: delete shape_ptr2;
Delete06 ==
    /\ prog = "overloading" /\ pc = "l20"
    /\ heap' = Delete(heap, ptr.addr)
    /\ released' = Append(released, Release(ptr.addr, 0))
    /\ pc' = "l26"
    /\ UNCHANGED <<prog, args, idx, objs, shapes1, shapes3, shapes4, out, ptr, acc>>

\* lines 26-27: Circle circle1(7.5, "Circle1"); Oval oval1(5.0, 3.0, "Oval1");
Construct06 ==
    /\ prog = "overloading" /\ pc = "l26"
    /\ \E r \in Dims, x \in Dims, y \in Dims, n1 \in Names, n2 \in Names :
         objs' = <<MkCircle(r, n1), MkOval(x, y, n2)>>
    /\ pc' = "l31"
    /\ UNCHANGED <<prog, args, idx, shapes1, shapes3, shapes4, heap, released, out, ptr, acc>>

\* variant: draw() is not virtual, the pointer's type picks the body
Override06_static ==
    /\ prog = "overloading" /\ pc = "l31"
    /\ out' = out \o <<LogEntry("ptr", 1, DrawBody("Shape", objs[1])),
                       LogEntry("ptr", 2, DrawBody("Shape", objs[2]))>>
    /\ pc' = "l38"
    /\ UNCHANGED <<prog, args, idx, objs, shapes1, shapes3, shapes4, heap, released, ptr, acc>>

\* lines 31-34: shape_ptr = &circle1; shape_ptr->draw(); shape_ptr = &oval1; shape_ptr->draw();
Override06 ==
    /\ prog = "overloading" /\ pc = "l31"
    /\ out' = out \o <<LogEntry("ptr", 1, CallDraw("Shape", objs[1])),
                       LogEntry("ptr", 2, CallDraw("Shape", objs[2]))>>
    /\ pc' = "l38"
    /\ UNCHANGED <<prog, args, idx, objs, shapes1, shapes3, shapes4, heap, released, ptr, acc>>

\* lines 38-41: shape_ptr->draw(24); oval1.draw(32, "Blue");
Overload06 ==
    /\ prog = "overloading" /\ pc = "l38"
    /\ out' = out \o <<LogEntry("ptr", 2, ShapeDraw1(objs[2], 24)),
                       LogEntry("object", 2, OvalDraw2(objs[2], 32, "Blue"))>>
    /\ pc' = "l45"
    /\ UNCHANGED <<prog, args, idx, objs, shapes1, shapes3, shapes4, heap, released, ptr, acc>>

\* line 45: Circle circle2(10.0, "Circle2");
Construct06l45 ==
    /\ prog = "overloading" /\ pc = "l45"
    /\ \E r \in Dims, n \in Names : objs' = Append(objs, MkCircle(r, n))
    /\ pc' = "l47"
    /\ UNCHANGED <<prog, args, idx, shapes1, shapes3, shapes4, heap, released, out, ptr, acc>>

\* lines 47-49: circle2.draw(); circle2.Oval::draw(16, "Green");
Hiding06 ==
    /\ prog = "overloading" /\ pc = "l47"
    /\ out' = out \o <<LogEntry("object", 3, CallDraw("Circle", objs[3])),
                       LogEntry("qualified", 3, OvalDraw2(objs[3], 16, "Green"))>>
    /\ pc' = "l51"
    /\ UNCHANGED <<prog, args, idx, objs, shapes1, shapes3, shapes4, heap, released, ptr, acc>>

\* line 51: return 0; the stack objects go out of scope
Return06 ==
    /\ prog = "overloading" /\ pc = "l51"
    /\ objs' = <<>>
    /\ pc' = "done"
    /\ UNCHANGED <<prog, args, idx, shapes1, shapes3, shapes4, heap, released, out, ptr, acc>>

----------------------------------------------------------------------------
(* day-11/02_code/03_SizeOfPolymorphicObjectsAndSlicing/main.cpp *)

\* line 24: Circle circle1(3.3, "Circle1");  the class is an input
Construct03 ==
    /\ prog = "slicing" /\ pc = "start"
    /\ \E o \in AllObjects : objs' = <<o>>
    /\ pc' = "l25"
    /\ UNCHANGED <<prog, args, idx, shapes1, shapes3, shapes4, heap, released, out, ptr, acc>>

\* variant: the slot is default-constructed instead of copied from the source
Slice03_default ==
    /\ prog = "slicing" /\ pc = "l25"
    /\ shapes1' = <<ShapeDefault>>
    /\ pc' = "l26"
    /\ UNCHANGED <<prog, args, idx, objs, shapes3, shapes4, heap, released, out, ptr, acc>>

\* line 25: Shape shape = circle1;
Slice03 ==
    /\ prog = "slicing" /\ pc = "l25"
    /\ shapes1' = <<SliceCopy(objs[1])>>
    /\ pc' = "l26"
    /\ UNCHANGED <<prog, args, idx, objs, shapes3, shapes4, heap, released, out, ptr, acc>>

\* line 26: shape.draw();
Draw03 ==
    /\ prog = "slicing" /\ pc = "l26"
    /\ out' = Append(out, LogEntry("value", 1, CallDraw("Shape", shapes1[1])))
    /\ pc' = "l28"
    /\ UNCHANGED <<prog, args, idx, objs, shapes1, shapes3, shapes4, heap, released, ptr, acc>>

\* line 28: return 0;
Return03 ==
    /\ prog = "slicing" /\ pc = "l28"
    /\ shapes1' = <<>>
    /\ objs' = <<>>
    /\ pc' = "done"
    /\ UNCHANGED <<prog, args, idx, shapes3, shapes4, heap, released, out, ptr, acc>>

----------------------------------------------------------------------------
(* day-11/02_code/02_PolymorphismWithVirtualFunctions/main.cpp *)

\* void draw_shape(Shape *s) { s->draw(); }
draw_shape(o) == CallDraw("Shape", o)

\* variant: void draw_shape_v1(Shape s_r)  the argument is passed by value
draw_shape_v1_byvalue(o) == CallDraw("Shape", SliceCopy(o))

\* void draw_shape_v1(const Shape &s_r) { s_r.draw(); }
draw_shape_v1(o) == CallDraw("Shape", o)

\* lines 19-21: Shape shape1(...); Oval oval1(...); Circle circle1(...);
Construct02 ==
    /\ prog = "virtual" /\ pc = "start"
    /\ \E n1 \in Names, n2 \in Names, n3 \in Names, x \in Dims, y \in Dims, r \in Dims :
         objs' = <<MkShape(n1), MkOval(x, y, n2), MkCircle(r, n3)>>
    /\ pc' = "l24"
    /\ UNCHANGED <<prog, args, idx, shapes1, shapes3, shapes4, heap, released, out, ptr, acc>>

\* lines 24-31: shape_ptr = &shape1 / &oval1 / &circle1; shape_ptr->draw();
Pointers02 ==
    /\ prog = "virtual" /\ pc = "l24"
    /\ out' = out \o [k \in 1..3 |-> LogEntry("ptr", k, CallDraw("Shape", objs[k]))]
    /\ ptr' = [st |-> "Shape", addr |-> 3]
    /\ pc' = "l34"
    /\ UNCHANGED <<prog, args, idx, objs, shapes1, shapes3, shapes4, heap, released, acc>>

\* lines 34-35: Shape &shape_ref = circle1; shape_ref.draw();
Reference02 ==
    /\ prog = "virtual" /\ pc = "l34"
    /\ out' = Append(out, LogEntry("ref", 3, CallDraw("Shape", objs[3])))
    /\ pc' = "l38"
    /\ UNCHANGED <<prog, args, idx, objs, shapes1, shapes3, shapes4, heap, released, ptr, acc>>

\* lines 38-39: draw_shape(&circle1); draw_shape_v1(circle1);
Helpers02 ==
    /\ prog = "virtual" /\ pc = "l38"
    /\ out' = out \o <<LogEntry("ptr", 3, draw_shape(objs[3])),
                       LogEntry("ref", 3, draw_shape_v1(objs[3]))>>
    /\ pc' = "l42"
    /\ UNCHANGED <<prog, args, idx, objs, shapes1, shapes3, shapes4, heap, released, ptr, acc>>

\* lines 42-48: shape_ptr = &oval1; Shape *shape_collection[]{&shape1, &oval1, &circle1};
Populate02 ==
    /\ prog = "virtual" /\ pc = "l42"
    /\ ptr' = [st |-> "Shape", addr |-> 2]
    /\ shapes3' = <<1, 2, 3>>
    /\ idx' = 1
    /\ pc' = "l50"
    /\ UNCHANGED <<prog, args, objs, shapes1, shapes4, heap, released, out, acc>>

\* lines 50-53: for (Shape *s_ptr : shape_collection) s_ptr->draw();
Iterate02 ==
    /\ prog = "virtual" /\ pc = "l50"
    /\ idx <= Len(shapes3)
    /\ out' = Append(out, LogEntry("raw", idx, CallDraw("Shape", objs[shapes3[idx]])))
    /\ idx' = idx + 1
    /\ UNCHANGED <<prog, args, pc, objs, shapes1, shapes3, shapes4, heap, released, ptr, acc>>

\* line 55: return 0;
Return02 ==
    /\ prog = "virtual" /\ pc = "l50"
    /\ idx > Len(shapes3)
    /\ shapes3' = <<>>
    /\ objs' = <<>>
    /\ ptr' = NoHandle
    /\ pc' = "done"
    /\ UNCHANGED <<prog, args, idx, shapes1, shapes4, heap, released, out, acc>>

----------------------------------------------------------------------------
(* day-3/code/05_danglingPointer.cpp, the part that is not commented out *)

\* the names of the pointer variables p_number5 .. p_number9
PtrNames == 5..9

\* int *p{new int{v}}: a fresh heap block holding v
NewInt(h, v) == Append(h, [obj |-> v, rc |-> 0, alive |-> TRUE])

\* if (g != nullptr) { ... *p ... } else { report }: what the guarded access
\* does when the guard pointer holds g
Guarded(g) == IF g # Null THEN "deref" ELSE "reported"

\* variant: the pointer is not reset after the delete
AfterDelete7_keep(a) == a

\* the value of p_number7 after lines 47-48: delete p_number7; p_number7 = nullptr;
AfterDelete7(a) == Null

\* variant: the master pointer is not reset after the delete
AfterDelete8_keep(a) == a

\* the value of p_number8 after lines 74-75: delete p_number8; p_number8 = nullptr;
AfterDelete8(a) == Null

\* lines 31-40: p_number5{nullptr}; p_number6{new int(87)}; guarded print of *p_number6
Solution1 ==
    /\ prog = "dangling" /\ pc = "start"
    /\ \E v \in IntVals :
         LET h == NewInt(heap, v)
             a == Len(heap) + 1
         IN /\ heap' = h
            /\ ptr' = [n \in PtrNames |-> IF n = 6 THEN a ELSE Null]
            /\ acc' = Append(acc, Access(6, a, h, Guarded(a)))
            /\ out' = Append(out, LogEntry("int", 6,
                         IF Guarded(a) = "deref" THEN <<"*p_number6", h[a].obj>>
                                                 ELSE <<"Invalid address">>))
    /\ pc' = "l45"
    /\ UNCHANGED <<prog, args, idx, objs, shapes1, shapes3, shapes4, released>>

\* lines 45-46: p_number7{new int{82}}; print *p_number7
New7 ==
    /\ prog = "dangling" /\ pc = "l45"
    /\ \E v \in IntVals :
         LET h == NewInt(heap, v)
             a == Len(heap) + 1
         IN /\ heap' = h
            /\ ptr' = [ptr EXCEPT ![7] = a]
            /\ acc' = Append(acc, Access(7, a, h, "deref"))
            /\ out' = Append(out, LogEntry("int", 7, <<"p_number7", h[a].obj>>))
    /\ pc' = "l47"
    /\ UNCHANGED <<prog, args, idx, objs, shapes1, shapes3, shapes4, released>>

\* lines 47-48: delete p_number7; p_number7 = nullptr;
Delete7 ==
    /\ prog = "dangling" /\ pc = "l47"
    /\ heap' = Delete(heap, ptr[7])
    /\ released' = Append(released, Release(ptr[7], 0))
    /\ ptr' = [ptr EXCEPT ![7] = AfterDelete7(ptr[7])]
    /\ pc' = "l50"
    /\ UNCHANGED <<prog, args, idx, objs, shapes1, shapes3, shapes4, out, acc>>

\* what printing *p yields for the block at address a: its value when the
\* block is live; any value or a crash once the block was released
Reads(label, h, a) ==
    IF Live(h, a) THEN {<<label, h[a].obj>>}
    ELSE {<<label, v>> : v \in IntVals} \cup {<<"crash">>}

\* lines 50-57: if (p_number7 != nullptr) print *p_number7 else "Invalid memory access!"
Check7 ==
    /\ prog = "dangling" /\ pc = "l50"
    /\ acc' = Append(acc, Access(7, ptr[7], heap, Guarded(ptr[7])))
    /\ IF Guarded(ptr[7]) = "deref"
       THEN \E t \in Reads("*p_number7", heap, ptr[7]) :
              out' = Append(out, LogEntry("int", 7, t))
       ELSE out' = Append(out, LogEntry("int", 7, <<"Invalid memory access!">>))
    /\ pc' = "l64"
    /\ UNCHANGED <<prog, args, idx, objs, shapes1, shapes3, shapes4, heap, released, ptr>>

\* lines 64-67: p_number8{new int{382}}; p_number9{p_number8}; print *p_number8
New8 ==
    /\ prog = "dangling" /\ pc = "l64"
    /\ \E v \in IntVals :
         LET h == NewInt(heap, v)
             a == Len(heap) + 1
         IN /\ heap' = h
            /\ ptr' = [ptr EXCEPT ![8] = a, ![9] = a]
            /\ acc' = Append(acc, Access(8, a, h, "deref"))
            /\ out' = Append(out, LogEntry("int", 8, <<"p_number8", h[a].obj>>))
    /\ pc' = "l69"
    /\ UNCHANGED <<prog, args, idx, objs, shapes1, shapes3, shapes4, released>>

\* lines 69-72 and 77-84: if (!(p_number8 == nullptr)) print *p_number9
\* [else "WARNING : Trying to use an invalid pointer"]
Check9 ==
    /\ prog = "dangling" /\ pc \in {"l69", "l77"}
    /\ acc' = Append(acc, Access(9, ptr[9], heap, Guarded(ptr[8])))
    /\ IF Guarded(ptr[8]) = "deref"
       THEN \E t \in Reads("p_number9", heap, ptr[9]) :
              out' = Append(out, LogEntry("int", 9, t))
       ELSE IF pc = "l77"
            THEN out' = Append(out, LogEntry("int", 9, <<"WARNING : Trying to use an invalid pointer">>))
            ELSE out' = out
    /\ pc' = IF pc = "l69" THEN "l74" ELSE "l87"
    /\ UNCHANGED <<prog, args, idx, objs, shapes1, shapes3, shapes4, heap, released, ptr>>

\* lines 74-75: delete p_number8; p_number8 = nullptr;
Delete8 ==
    /\ prog = "dangling" /\ pc = "l74"
    /\ heap' = Delete(heap, ptr[8])
    /\ released' = Append(released, Release(ptr[8], 0))
    /\ ptr' = [ptr EXCEPT ![8] = AfterDelete8(ptr[8])]
    /\ pc' = "l77"
    /\ UNCHANGED <<prog, args, idx, objs, shapes1, shapes3, shapes4, out, acc>>

\* line 87: return 0;
Return05 ==
    /\ prog = "dangling" /\ pc = "l87"
    /\ pc' = "done"
    /\ UNCHANGED <<prog, args, idx, objs, shapes1, shapes3, shapes4, heap, released, out, ptr, acc>>

----------------------------------------------------------------------------
(* day-11/02_code/01_StaticBindingWithInheritance/main.cpp *)

\* variant: every call runs Shape's draw()
StaticDispatch_base(st, dyn) == "Shape"

\* variant: the call is resolved by the class of the object
StaticDispatch_virtual(st, dyn) == dyn

\* which class's draw() a call through a handle of static type st runs on an
\* object of dynamic class dyn in this program: draw() is not virtual here
StaticDispatch(st, dyn) == st

\* p->draw() / r.draw() / o.draw() through a handle of static type st bound to o
StaticCall(st, o) == DrawBody(StaticDispatch(st, o.cls), o)

\* void draw_circle(const Circle &circle) { circle.draw(); }
draw_circle(o) == StaticCall("Circle", o)

\* variant: void draw_oval(const Shape &oval)
draw_oval_asShape(o) == StaticCall("Shape", o)

\* void draw_oval(const Oval &oval) { oval.draw(); }
draw_oval(o) == StaticCall("Oval", o)

\* the constructor arguments as written in main(): the class, whether the
\* default constructor was used, the label and the radii
Args(c, dflt, label, dims) == [cls |-> c, dflt |-> dflt, label |-> label, dims |-> dims]

\* T a[]{x, ...}: an element of the same class is copy-constructed whole
CopyObject(o) == o

\* line 19: Shape shape1("Shape1");  the label, or none at all, is an input
ConstructShape01 ==
    /\ prog = "static" /\ pc = "start"
    /\ \/ \E n \in Names :
            /\ objs' = <<MkShape(n)>>
            /\ args' = <<Args("Shape", FALSE, n, <<>>)>>
       \/ /\ objs' = <<ShapeDefault>>
          /\ args' = <<Args("Shape", TRUE, "", <<>>)>>
    /\ pc' = "l20"
    /\ UNCHANGED <<prog, idx, shapes1, shapes3, shapes4, heap, released, out, ptr, acc>>

\* line 20: shape1.draw();
DrawShape01 ==
    /\ prog = "static" /\ pc = "l20"
    /\ out' = Append(out, LogEntry("object", 1, StaticCall("Shape", objs[1])))
    /\ pc' = "l22"
    /\ UNCHANGED <<prog, args, idx, objs, shapes1, shapes3, shapes4, heap, released, ptr, acc>>

\* variant: the label of shape1 is passed on to oval1
ConstructOval01_mislabel ==
    /\ prog = "static" /\ pc = "l22"
    /\ \E x \in ArgDims, y \in ArgDims, n \in Names :
         /\ objs' = Append(objs, MkOval(x, y, objs[1].name))
         /\ args' = Append(args, Args("Oval", FALSE, n, <<x, y>>))
    /\ pc' = "l23"
    /\ UNCHANGED <<prog, idx, shapes1, shapes3, shapes4, heap, released, out, ptr, acc>>

\* line 22: Oval oval1(2.0, 3.5, "Oval1");
ConstructOval01 ==
    /\ prog = "static" /\ pc = "l22"
    /\ \E x \in ArgDims, y \in ArgDims, n \in Names :
         /\ objs' = Append(objs, MkOval(x, y, n))
         /\ args' = Append(args, Args("Oval", FALSE, n, <<x, y>>))
    /\ pc' = "l23"
    /\ UNCHANGED <<prog, idx, shapes1, shapes3, shapes4, heap, released, out, ptr, acc>>

\* line 23: oval1.draw();
DrawOval01 ==
    /\ prog = "static" /\ pc = "l23"
    /\ out' = Append(out, LogEntry("object", 2, StaticCall("Oval", objs[2])))
    /\ pc' = "l25"
    /\ UNCHANGED <<prog, args, idx, objs, shapes1, shapes3, shapes4, heap, released, ptr, acc>>

\* variant: a radius that is not positive is refused
ConstructCircle01_validated ==
    /\ prog = "static" /\ pc = "l25"
    /\ \E r \in ArgDims, n \in Names :
         IF r > 0
         THEN /\ objs' = Append(objs, MkCircle(r, n))
              /\ args' = Append(args, Args("Circle", FALSE, n, <<r>>))
              /\ pc' = "l26"
              /\ out' = out
         ELSE /\ out' = Append(out, LogEntry("error", 3, <<"invalid radius", r>>))
              /\ args' = Append(args, Args("Circle", FALSE, n, <<r>>))
              /\ pc' = "rejected"
              /\ objs' = objs
    /\ UNCHANGED <<prog, idx, shapes1, shapes3, shapes4, heap, released, ptr, acc>>

\* line 25: Circle circle1(3.3, "Circle1");
ConstructCircle01 ==
    /\ prog = "static" /\ pc = "l25"
    /\ \E r \in ArgDims, n \in Names :
         /\ objs' = Append(objs, MkCircle(r, n))
         /\ args' = Append(args, Args("Circle", FALSE, n, <<r>>))
    /\ pc' = "l26"
    /\ UNCHANGED <<prog, idx, shapes1, shapes3, shapes4, heap, released, out, ptr, acc>>

\* line 26: circle1.draw();
DrawCircle01 ==
    /\ prog = "static" /\ pc = "l26"
    /\ out' = Append(out, LogEntry("object", 3, StaticCall("Circle", objs[3])))
    /\ pc' = "l29"
    /\ UNCHANGED <<prog, args, idx, objs, shapes1, shapes3, shapes4, heap, released, ptr, acc>>

\* lines 29-34: Shape *shape_ptr = &shape1; shape_ptr->draw(); shape_ptr = &oval1; shape_ptr->draw();
ShapePtr01 ==
    /\ prog = "static" /\ pc = "l29"
    /\ out' = out \o <<LogEntry("sptr", 1, StaticCall("Shape", objs[1])),
                       LogEntry("sptr", 2, StaticCall("Shape", objs[2]))>>
    /\ pc' = "l38"
    /\ UNCHANGED <<prog, args, idx, objs, shapes1, shapes3, shapes4, heap, released, ptr, acc>>

\* variant: the pointer is not re-pointed at circle1 before the second call
OvalPtr01_stale ==
    /\ prog = "static" /\ pc = "l38"
    /\ out' = out \o <<LogEntry("optr", 2, StaticCall("Oval", objs[2])),
                       LogEntry("optr", 3, StaticCall("Oval", objs[2]))>>
    /\ pc' = "l46"
    /\ UNCHANGED <<prog, args, idx, objs, shapes1, shapes3, shapes4, heap, released, ptr, acc>>

\* lines 38-43: Oval *shape_ptr2 = &oval1; shape_ptr2->draw(); shape_ptr2 = &circle1; shape_ptr2->draw();
OvalPtr01 ==
    /\ prog = "static" /\ pc = "l38"
    /\ out' = out \o <<LogEntry("optr", 2, StaticCall("Oval", objs[2])),
                       LogEntry("optr", 3, StaticCall("Oval", objs[3]))>>
    /\ pc' = "l46"
    /\ UNCHANGED <<prog, args, idx, objs, shapes1, shapes3, shapes4, heap, released, ptr, acc>>

\* lines 46-47: Shape &shape_ref = circle1; shape_ref.draw();
Reference01 ==
    /\ prog = "static" /\ pc = "l46"
    /\ out' = Append(out, LogEntry("sref", 3, StaticCall("Shape", objs[3])))
    /\ pc' = "l50"
    /\ UNCHANGED <<prog, args, idx, objs, shapes1, shapes3, shapes4, heap, released, ptr, acc>>

\* lines 50-51: draw_circle(circle1); draw_oval(oval1);
Helpers01 ==
    /\ prog = "static" /\ pc = "l50"
    /\ out' = out \o <<LogEntry("cref", 3, draw_circle(objs[3])),
                       LogEntry("oref", 2, draw_oval(objs[2]))>>
    /\ pc' = "l54"
    /\ UNCHANGED <<prog, args, idx, objs, shapes1, shapes3, shapes4, heap, released, ptr, acc>>

\* lines 54-55: Circle circle_collection[]{circle1, Circle(...), Circle(...)};
\*              Oval oval_collection[]{oval1, Oval(...)};
\* both arrays are kept in shapes1, the Circles first
Collections01 ==
    /\ prog = "static" /\ pc = "l54"
    /\ \E c2, c3 \in {o \in Samples : o.cls = "Circle"} :
         \E o2 \in {o \in Samples : o.cls = "Oval"} :
            shapes1' = <<CopyObject(objs[3]), c2, c3, CopyObject(objs[2]), o2>>
    /\ pc' = "l58"
    /\ UNCHANGED <<prog, args, idx, objs, shapes3, shapes4, heap, released, out, ptr, acc>>

\* line 58: return 0;
Return01 ==
    /\ prog = "static" /\ pc = "l58"
    /\ shapes1' = <<>>
    /\ objs' = <<>>
    /\ pc' = "done"
    /\ UNCHANGED <<prog, args, idx, shapes3, shapes4, heap, released, out, ptr, acc>>

----------------------------------------------------------------------------
(* day-3/code/06_whenNewFails.cpp *)

\* the names of the pointer variables data1 and data2
DataNames == 1..2

\* new int[n]: a fresh heap block obtained with the array form; its elements
\* are never read
NewArray(h) == Append(h, [obj |-> Null, rc |-> 0, alive |-> TRUE, form |-> "array"])

\* an entry of the release log that also records the form of the delete
\* expression, "single" for delete and "array" for delete[]
ReleaseAs(a, f) == [addr |-> a, slot |-> 0, form |-> f]

\* lines 7-17: data1 = nullptr; try { data1 = new int[...]; } catch (std::exception &)
\* whether the allocation succeeds is an input
Try11 ==
    /\ prog = "newfails" /\ pc = "start"
    /\ \E ok \in BOOLEAN :
         IF ok
         THEN /\ heap' = NewArray(heap)
              /\ ptr' = [n \in DataNames |-> IF n = 1 THEN Len(heap) + 1 ELSE Null]
              /\ out' = Append(out, LogEntry("int", 1, <<"data1 allocated successfully with exceptions.">>))
         ELSE /\ heap' = heap
              /\ ptr' = [n \in DataNames |-> Null]
              /\ out' = Append(out, LogEntry("int", 1, <<"Something went wrong (exception): ">>))
    /\ pc' = "l20"
    /\ UNCHANGED <<prog, args, idx, objs, shapes1, shapes3, shapes4, released, acc>>

\* lines 20-27: if (data1 != nullptr) { delete[] data1; data1 = nullptr; } else report
Cleanup20 ==
    /\ prog = "newfails" /\ pc = "l20"
    /\ acc' = Append(acc, Access(1, ptr[1], heap, Guarded(ptr[1])))
    /\ IF ptr[1] # Null
       THEN /\ heap' = Delete(heap, ptr[1])
            /\ released' = Append(released, ReleaseAs(ptr[1], "array"))
            /\ out' = Append(out, LogEntry("int", 1, <<"data1 deleted">>))
            /\ ptr' = [ptr EXCEPT ![1] = Null]
       ELSE /\ out' = Append(out, LogEntry("int", 1, <<"data1 not allocated so not need to delete">>))
            /\ UNCHANGED <<heap, released, ptr>>
    /\ pc' = "l32"
    /\ UNCHANGED <<prog, args, idx, objs, shapes1, shapes3, shapes4>>

\* line 32: int *data2 = new (std::nothrow) int[...];  null when the allocation fails
Nothrow32 ==
    /\ prog = "newfails" /\ pc = "l32"
    /\ \E ok \in BOOLEAN :
         IF ok
         THEN /\ heap' = NewArray(heap)
              /\ ptr' = [ptr EXCEPT ![2] = Len(heap) + 1]
         ELSE /\ heap' = heap
              /\ ptr' = [ptr EXCEPT ![2] = Null]
    /\ pc' = "l33"
    /\ UNCHANGED <<prog, args, idx, objs, shapes1, shapes3, shapes4, released, out, acc>>

\* variant: the block of data2 is not released
Cleanup33_leak ==
    /\ prog = "newfails" /\ pc = "l33"
    /\ acc' = Append(acc, Access(2, ptr[2], heap, Guarded(ptr[2])))
    /\ IF ptr[2] # Null
       THEN /\ out' = Append(out, LogEntry("int", 2, <<"data2 allocated successfully using nothrow.">>))
            /\ ptr' = [ptr EXCEPT ![2] = Null]
       ELSE /\ out' = Append(out, LogEntry("int", 2, <<"data2 allocation failed (nothrow).">>))
            /\ ptr' = ptr
    /\ pc' = "l44"
    /\ UNCHANGED <<prog, args, idx, objs, shapes1, shapes3, shapes4, heap, released>>

\* lines 33-42: if (data2 != nullptr) { delete[] data2; data2 = nullptr; } else report
Cleanup33 ==
    /\ prog = "newfails" /\ pc = "l33"
    /\ acc' = Append(acc, Access(2, ptr[2], heap, Guarded(ptr[2])))
    /\ IF ptr[2] # Null
       THEN /\ out' = Append(out, LogEntry("int", 2, <<"data2 allocated successfully using nothrow.">>))
            /\ heap' = Delete(heap, ptr[2])
            /\ released' = Append(released, ReleaseAs(ptr[2], "array"))
            /\ ptr' = [ptr EXCEPT ![2] = Null]
       ELSE /\ out' = Append(out, LogEntry("int", 2, <<"data2 allocation failed (nothrow).">>))
            /\ UNCHANGED <<heap, released, ptr>>
    /\ pc' = "l44"
    /\ UNCHANGED <<prog, args, idx, objs, shapes1, shapes3, shapes4>>

\* line 44: return 0;
Return06n ==
    /\ prog = "newfails" /\ pc = "l44"
    /\ pc' = "done"
    /\ UNCHANGED <<prog, args, idx, objs, shapes1, shapes3, shapes4, heap, released, out, ptr, acc>>

----------------------------------------------------------------------------
(* day-3/code/04_dynamicMemoryAllocation.cpp *)

\* the names of the pointer variables p_number, p_number2, p_number3, p_number4
NumberNames == 1..4

\* new int, new int(v), new int{v}: a fresh heap block obtained with the
\* single-object form; without an initialiser it holds an indeterminate value
NewSingle(h, v, init) ==
    Append(h, [obj |-> v, rc |-> 0, alive |-> TRUE, form |-> "single", init |-> init])

\* what printing *p yields for a live block: its value, or any value when the
\* block was never written
ReadsInt(label, h, a) ==
    IF h[a].init THEN {<<label, h[a].obj>>} ELSE {<<label, v>> : v \in IntVals}

\* what a delete expression of form f does to the block at address a: it
\* releases the block when f is the form the block was obtained with; on a
\* mismatch the behaviour is undefined: the run-time either releases the
\* block all the same or detects the mismatch and aborts the program
DeleteOutcomes(h, a, f) ==
    IF h[a].form = f THEN {"released"} ELSE {"released", "abort"}

\* the delete expression of form f on pointer p, then p = nullptr when reset
\* holds, moving from position from to position to
DeleteStmt(p, f, reset, from, to) ==
    /\ prog = "dynalloc" /\ pc = from
    /\ \E o \in DeleteOutcomes(heap, ptr[p], f) :
         IF o = "released"
         THEN /\ heap' = Delete(heap, ptr[p])
              /\ released' = Append(released, ReleaseAs(ptr[p], f))
              /\ ptr' = IF reset THEN [ptr EXCEPT ![p] = Null] ELSE ptr
              /\ pc' = to
         ELSE /\ pc' = "aborted"
              /\ UNCHANGED <<heap, released, ptr>>
    /\ UNCHANGED <<prog, args, idx, objs, shapes1, shapes3, shapes4, out, acc>>

\* p = new int(v); print *p : a fresh initialised block, then one read of it
NewAndPrint(p, label, from, to) ==
    /\ prog = "dynalloc" /\ pc = from
    /\ \E v \in IntVals :
         LET h == NewSingle(heap, v, TRUE)
             a == Len(heap) + 1
         IN /\ heap' = h
            /\ ptr' = [ptr EXCEPT ![p] = a]
            /\ acc' = Append(acc, Access(p, a, h, "deref"))
            /\ out' = Append(out, LogEntry("int", p, <<label, v>>))
    /\ pc' = to
    /\ UNCHANGED <<prog, args, idx, objs, shapes1, shapes3, shapes4, released>>

\* lines 7-8: int *p_number{nullptr}; p_number = new int;
Alloc8 ==
    /\ prog = "dynalloc" /\ pc = "start"
    /\ heap' = NewSingle(heap, Null, FALSE)
    /\ ptr' = [n \in NumberNames |-> IF n = 1 THEN Len(heap) + 1 ELSE Null]
    /\ pc' = "l16"
    /\ UNCHANGED <<prog, args, idx, objs, shapes1, shapes3, shapes4, released, out, acc>>

\* lines 16-17: *p_number = 77; print *p_number
Write16 ==
    /\ prog = "dynalloc" /\ pc = "l16"
    /\ \E v \in IntVals :
         /\ heap' = [heap EXCEPT ![ptr[1]].obj = v, ![ptr[1]].init = TRUE]
         /\ out' = Append(out, LogEntry("int", 1, <<"*p_number", v>>))
    /\ acc' = acc \o <<Access(1, ptr[1], heap, "deref"), Access(1, ptr[1], heap, "deref")>>
    /\ pc' = "l19"
    /\ UNCHANGED <<prog, args, idx, objs, shapes1, shapes3, shapes4, released, ptr>>

\* lines 19-20: delete p_number; p_number = nullptr;
Delete19 == DeleteStmt(1, "single", TRUE, "l19", "l24")

\* lines 24-26: p_number2{new int}; p_number3{new int(22)}; p_number4{new int{23}};
Alloc24 ==
    /\ prog = "dynalloc" /\ pc = "l24"
    /\ \E v3 \in IntVals, v4 \in IntVals :
         LET h2 == NewSingle(heap, Null, FALSE)
             h3 == NewSingle(h2, v3, TRUE)
             h4 == NewSingle(h3, v4, TRUE)
         IN /\ heap' = h4
            /\ ptr' = [ptr EXCEPT ![2] = Len(h2), ![3] = Len(h3), ![4] = Len(h4)]
    /\ pc' = "l31"
    /\ UNCHANGED <<prog, args, idx, objs, shapes1, shapes3, shapes4, released, out, acc>>

\* lines 29-37: print *p_number2 (never written: junk), *p_number3, *p_number4
Print31 ==
    /\ prog = "dynalloc" /\ pc = "l31"
    /\ \E t2 \in ReadsInt("*p_number2", heap, ptr[2]),
          t3 \in ReadsInt("*p_number3", heap, ptr[3]),
          t4 \in ReadsInt("*p_number4", heap, ptr[4]) :
         out' = out \o <<LogEntry("int", 2, t2), LogEntry("int", 3, t3), LogEntry("int", 4, t4)>>
    /\ acc' = acc \o <<Access(2, ptr[2], heap, "deref"), Access(3, ptr[3], heap, "deref"),
                        Access(4, ptr[4], heap, "deref")>>
    /\ pc' = "l40"
    /\ UNCHANGED <<prog, args, idx, objs, shapes1, shapes3, shapes4, heap, released, ptr>>

\* lines 40-41: delete p_number2; p_number2 = nullptr;
Delete40 == DeleteStmt(2, "single", TRUE, "l40", "l43")

\* lines 43-44: delete[] p_number3; p_number3 = nullptr;
Delete43 == DeleteStmt(3, "array", TRUE, "l43", "l46")

\* lines 46-47: delete[] p_number4; p_number4 = nullptr;
Delete46 == DeleteStmt(4, "array", TRUE, "l46", "l50")

\* lines 50-51: p_number2 = new int(81); print *p_number2
Reuse50 == NewAndPrint(2, "*p_number", "l50", "l53")

\* lines 53-54: delete[] p_number2; p_number2 = nullptr;
Delete53 == DeleteStmt(2, "array", TRUE, "l53", "l57")

\* lines 57-58: p_number2 = new int(99); print *p_number2
Reuse57 == NewAndPrint(2, "*p_number2", "l57", "l59")

\* line 59: delete[] p_number2;  the pointer is not reset
Delete59 == DeleteStmt(2, "array", FALSE, "l59", "l62")

\* line 62: return 0;
Return04d ==
    /\ prog = "dynalloc" /\ pc = "l62"
    /\ pc' = "done"
    /\ UNCHANGED <<prog, args, idx, objs, shapes1, shapes3, shapes4, heap, released, out, ptr, acc>>

----------------------------------------------------------------------------
(* day-4/code/03_cStringManupulation.cpp, lines 101-140: the two search loops *)

\* line 106: the string literal, one character per element (the terminating
\* null character is position Len + 1)
Literal ==
    <<
      "T", "r", "y", " ", "n", "o", "t", ".", " ", "D",
      "o", ",", " ", "o", "r", " ", "d", "o", " ", "n",
      "o", "t", ".", " ", "T", "h", "e", "r", "e", " ",
      "i", "s", " ", "n", "o", " ", "t", "r", "y", "." >>

\* the characters of the generated strings
Chars == {"T", "r"}

\* the strings the loops run on: the literal and every string over Chars of
\* at most MaxStr characters
Strings == {Literal} \cup UNION {[1..n -> Chars] : n \in 0..MaxStr}

\* std::strchr(s + from - 1, c) for c other than the null character: the
\* position of the first c at or after position from, Null when there is none
RECURSIVE strchr(_, _, _)
strchr(s, from, c) ==
    IF from > Len(s) THEN Null
    ELSE IF s[from] = c THEN from
    ELSE strchr(s, from + 1, c)

\* lines 106-110: str, target, result = str, iterations = 0; string and
\* target are inputs
Declare106 ==
    /\ prog = "search" /\ pc = "start"
    /\ \E s \in Strings, c \in Chars : args' = [str |-> s, target |-> c]
    /\ ptr' = [str |-> 1, result |-> 1]
    /\ idx' = 0
    /\ pc' = "l112"
    /\ UNCHANGED <<prog, objs, shapes1, shapes3, shapes4, heap, released, out, acc>>

\* variant: the search restarts two characters after the hit
Loop112_skip ==
    /\ prog = "search" /\ pc = "l112"
    /\ LET r == strchr(args.str, ptr.result, args.target)
       IN IF r # Null
          THEN /\ out' = Append(out, LogEntry("hit", r, <<"Found", args.target>>))
               /\ ptr' = [ptr EXCEPT !.result = r + 2]
               /\ idx' = idx + 1
               /\ pc' = pc
          ELSE /\ ptr' = [ptr EXCEPT !.result = Null]
               /\ pc' = "l119"
               /\ UNCHANGED <<out, idx>>
    /\ UNCHANGED <<prog, args, objs, shapes1, shapes3, shapes4, heap, released, acc>>

\* lines 112-118: while ((result = std::strchr(result, target)) != nullptr)
\*                { print; ++result; ++iterations; }   one test of the
\* condition and, when it holds, one pass through the body
Loop112 ==
    /\ prog = "search" /\ pc = "l112"
    /\ LET r == strchr(args.str, ptr.result, args.target)
       IN IF r # Null
          THEN /\ out' = Append(out, LogEntry("hit", r, <<"Found", args.target>>))
               /\ ptr' = [ptr EXCEPT !.result = r + 1]
               /\ idx' = idx + 1
               /\ pc' = pc
          ELSE /\ ptr' = [ptr EXCEPT !.result = Null]
               /\ pc' = "l119"
               /\ UNCHANGED <<out, idx>>
    /\ UNCHANGED <<prog, args, objs, shapes1, shapes3, shapes4, heap, released, acc>>

\* line 119: print iterations
Report119 ==
    /\ prog = "search" /\ pc = "l119"
    /\ out' = Append(out, LogEntry("count", 0, <<"iterations", idx>>))
    /\ pc' = "l125"
    /\ UNCHANGED <<prog, args, idx, objs, shapes1, shapes3, shapes4, heap, released, ptr, acc>>

\* lines 125-128: the inner block's str (same literal), target, result{nullptr}, iterations = 0
Declare125 ==
    /\ prog = "search" /\ pc = "l125"
    /\ ptr' = [str |-> 1, result |-> Null]
    /\ idx' = 0
    /\ pc' = "l130"
    /\ UNCHANGED <<prog, args, objs, shapes1, shapes3, shapes4, heap, released, out, acc>>

\* variant: the start of the string jumps past the hit
Loop130_resume ==
    /\ prog = "search" /\ pc = "l130"
    /\ LET r == strchr(args.str, ptr.str, args.target)
       IN IF r # Null
          THEN /\ out' = Append(out, LogEntry("badhit", ptr.str, <<"Found", args.target>>))
               /\ ptr' = [str |-> r + 1, result |-> r]
               /\ idx' = idx + 1
               /\ pc' = pc
          ELSE /\ ptr' = [ptr EXCEPT !.result = Null]
               /\ pc' = "l139"
               /\ UNCHANGED <<out, idx>>
    /\ UNCHANGED <<prog, args, objs, shapes1, shapes3, shapes4, heap, released, acc>>

\* lines 130-138: while ((result = std::strchr(str, target)) != nullptr)
\*                { print; ++str; ++iterations; }
Loop130 ==
    /\ prog = "search" /\ pc = "l130"
    /\ LET r == strchr(args.str, ptr.str, args.target)
       IN IF r # Null
          THEN /\ out' = Append(out, LogEntry("badhit", ptr.str, <<"Found", args.target>>))
               /\ ptr' = [str |-> ptr.str + 1, result |-> r]
               /\ idx' = idx + 1
               /\ pc' = pc
          ELSE /\ ptr' = [ptr EXCEPT !.result = Null]
               /\ pc' = "l139"
               /\ UNCHANGED <<out, idx>>
    /\ UNCHANGED <<prog, args, objs, shapes1, shapes3, shapes4, heap, released, acc>>

\* line 139: print iterations
Report139 ==
    /\ prog = "search" /\ pc = "l139"
    /\ out' = Append(out, LogEntry("badcount", 0, <<"iterations", idx>>))
    /\ pc' = "l154"
    /\ UNCHANGED <<prog, args, idx, objs, shapes1, shapes3, shapes4, heap, released, ptr, acc>>

\* line 154: return 0;
Return03s ==
    /\ prog = "search" /\ pc = "l154"
    /\ pc' = "done"
    /\ UNCHANGED <<prog, args, idx, objs, shapes1, shapes3, shapes4, heap, released, out, ptr, acc>>

----------------------------------------------------------------------------
(* day-4/code/01_reference.cpp, lines 64-126: a reference and a pointer to a double *)

\* the values the doubles are initialised with and assigned (12.34 and 78.45
\* in hundredths)
Doubles == {1234, 7845}

\* a variable of main holding v; its address is its position in the memory
Local(h, v) == Append(h, [obj |-> v, rc |-> 0, alive |-> TRUE])

\* the address of double_value: the first variable of the memory
AddrDoubleValue == 1
\* the address of some_other_double: the second variable of the memory
AddrSomeOther == 2

\* what a block of prints shows: double_value, ref_double_value,
\* &double_value, &ref_double_value (both printed from line 112 on),
\* p_double_value, *p_double_value
Prints(h, q) ==
    <<h[AddrDoubleValue].obj, h[q.ref].obj, AddrDoubleValue, q.ref, q.p, h[q.p].obj>>

\* *q = v, ref = v: a write to the variable at address a
Store(h, a, v) == [h EXCEPT ![a].obj = v]

\* lines 65-73: double double_value{12.34}; double &ref_double_value{double_value};
\* double *p_double_value{&double_value}; prints.  The values the program
\* uses are inputs, drawn here
Declare65 ==
    /\ prog = "reference" /\ pc = "start"
    /\ \E v \in Doubles, w1 \in Doubles, w2 \in Doubles, o \in Doubles, w3 \in Doubles :
         /\ args' = [init |-> v, w1 |-> w1, w2 |-> w2, other |-> o, w3 |-> w3]
         /\ heap' = Local(heap, v)
    /\ ptr' = [ref |-> AddrDoubleValue, p |-> AddrDoubleValue]
    /\ out' = Append(out, LogEntry("double", 70, Prints(heap', ptr')))
    /\ pc' = "l76"
    /\ UNCHANGED <<prog, idx, objs, shapes1, shapes3, shapes4, released, acc>>

\* lines 76-82: *p_double_value = 15.44; prints
WritePtr76 ==
    /\ prog = "reference" /\ pc = "l76"
    /\ heap' = Store(heap, ptr.p, args.w1)
    /\ out' = Append(out, LogEntry("double", 79, Prints(heap', ptr)))
    /\ pc' = "l87"
    /\ UNCHANGED <<prog, args, idx, objs, shapes1, shapes3, shapes4, released, ptr, acc>>

\* lines 87-92: ref_double_value = 18.44; prints
WriteRef87 ==
    /\ prog = "reference" /\ pc = "l87"
    /\ heap' = Store(heap, ptr.ref, args.w2)
    /\ out' = Append(out, LogEntry("double", 89, Prints(heap', ptr)))
    /\ pc' = "l97"
    /\ UNCHANGED <<prog, args, idx, objs, shapes1, shapes3, shapes4, released, ptr, acc>>

\* variant: the assignment makes the reference refer to some_other_double
AssignRef97_rebind ==
    /\ prog = "reference" /\ pc = "l97"
    /\ heap' = Local(heap, args.other)
    /\ ptr' = [ptr EXCEPT !.ref = AddrSomeOther]
    /\ out' = Append(out, LogEntry("double", 101, Prints(heap', ptr')))
    /\ pc' = "l109"
    /\ UNCHANGED <<prog, args, idx, objs, shapes1, shapes3, shapes4, released, acc>>

\* lines 97-104: double some_other_double{78.45};
\* ref_double_value = some_other_double; prints
AssignRef97 ==
    /\ prog = "reference" /\ pc = "l97"
    /\ heap' = Store(Local(heap, args.other), ptr.ref, args.other)
    /\ out' = Append(out, LogEntry("double", 101, Prints(heap', ptr)))
    /\ pc' = "l109"
    /\ UNCHANGED <<prog, args, idx, objs, shapes1, shapes3, shapes4, released, ptr, acc>>

\* lines 109-115: p_double_value = &some_other_double; prints
Repoint109 ==
    /\ prog = "reference" /\ pc = "l109"
    /\ ptr' = [ptr EXCEPT !.p = AddrSomeOther]
    /\ out' = Append(out, LogEntry("double", 110, Prints(heap, ptr')))
    /\ pc' = "l119"
    /\ UNCHANGED <<prog, args, idx, objs, shapes1, shapes3, shapes4, heap, released, acc>>

\* lines 119-126: *p_double_value = 555.5; prints
WritePtr119 ==
    /\ prog = "reference" /\ pc = "l119"
    /\ heap' = Store(heap, ptr.p, args.w3)
    /\ out' = Append(out, LogEntry("double", 121, Prints(heap', ptr)))
    /\ pc' = "l154"
    /\ UNCHANGED <<prog, args, idx, objs, shapes1, shapes3, shapes4, released, ptr, acc>>

\* line 154: return 0; the variables of main go out of scope
Return01r ==
    /\ prog = "reference" /\ pc = "l154"
    /\ heap' = [a \in 1..Len(heap) |-> [heap[a] EXCEPT !.alive = FALSE]]
    /\ pc' = "done"
    /\ UNCHANGED <<prog, args, idx, objs, shapes1, shapes3, shapes4, released, out, ptr, acc>>

Next ==
    \/ Construct04
    \/ Populate1
    \/ Iterate1
    \/ Populate3
    \/ Iterate3
    \/ Populate4
    \/ Iterate4
    \/ Teardown4
    \/ Return04
    \/ New06
    \/ Draw06l19
    \/ Delete06
    \/ Construct06
    \/ Override06
    \/ Overload06
    \/ Construct06l45
    \/ Hiding06
    \/ Return06
    \/ Construct03
    \/ Slice03
    \/ Draw03
    \/ Return03
    \/ Construct02
    \/ Pointers02
    \/ Reference02
    \/ Helpers02
    \/ Populate02
    \/ Iterate02
    \/ Return02
    \/ Solution1
    \/ New7
    \/ Delete7
    \/ Check7
    \/ New8
    \/ Check9
    \/ Delete8
    \/ Return05
    \/ ConstructShape01
    \/ DrawShape01
    \/ ConstructOval01
    \/ DrawOval01
    \/ ConstructCircle01
    \/ DrawCircle01
    \/ ShapePtr01
    \/ OvalPtr01
    \/ Reference01
    \/ Helpers01
    \/ Collections01
    \/ Return01
    \/ Try11
    \/ Cleanup20
    \/ Nothrow32
    \/ Cleanup33
    \/ Return06n
    \/ Alloc8
    \/ Write16
    \/ Delete19
    \/ Alloc24
    \/ Print31
    \/ Delete40
    \/ Delete43
    \/ Delete46
    \/ Reuse50
    \/ Delete53
    \/ Reuse57
    \/ Delete59
    \/ Return04d
    \/ Declare106
    \/ Loop112
    \/ Report119
    \/ Declare125
    \/ Loop130
    \/ Report139
    \/ Return03s
    \/ Declare65
    \/ WritePtr76
    \/ WriteRef87
    \/ AssignRef97
    \/ Repoint109
    \/ WritePtr119
    \/ Return01r

Spec == Init /\ [][Next]_vars

\* the search loops on their own; main() is one thread of control, so a
\* statement that can run does run
SearchInit == Init /\ prog = "search"

SearchNext ==
    \/ Declare106
    \/ Loop112
    \/ Report119
    \/ Declare125
    \/ Loop130
    \/ Report139
    \/ Return03s

LoopSpec == SearchInit /\ [][SearchNext]_vars /\ WF_vars(SearchNext)

----------------------------------------------------------------------------
(* Properties *)

\* the draw() a call on object o runs when the object's own class decides
OwnDraw(o) ==
    CASE o.cls = "Shape" -> ShapeDraw(o)
      [] o.cls = "Oval" -> OvalDraw(o)
      [] o.cls = "Circle" -> CircleDraw(o)

\* the entries of the output log written through handles of kind via
Through(via) == SelectSeq(out, LAMBDA e : e.via = via)

\* the raw-pointer array and its targets exist
RawPopulated == prog \in {"collections", "virtual"} /\ shapes3 # <<>>

\* the shared-handle array exists and no element has been destroyed
SharedPopulated == prog = "collections" /\ pc \in {"make4", "iter4"}

\* C1: a draw() through a pointer or shared handle stored in a base-typed
\* collection runs the implementation of the most-derived class of the
\* instance that slot refers to, for every slot
C1_IdentityPreserved ==
    /\ RawPopulated =>
         \A k \in 1..Len(out) :
            out[k].via = "raw" => out[k].text = OwnDraw(objs[shapes3[out[k].slot]])
    /\ SharedPopulated =>
         \A k \in 1..Len(out) :
            out[k].via = "shared" => out[k].text = OwnDraw(heap[shapes4[out[k].slot]].obj)

\* C1 witness: a Circle and an Oval were both drawn through shared handles
C1_Witness ==
    /\ SharedPopulated
    /\ \E j, k \in 1..Len(out) :
         /\ out[j].via = "shared" /\ out[j].text[1] = "Circle::draw"
         /\ out[k].via = "shared" /\ out[k].text[1] = "Oval::draw"

\* the value array and the objects it was copied from exist
ValuePopulated == prog \in {"collections", "slicing"} /\ shapes1 # <<>>

\* C2: a draw() through a by-value base slot that an Oval or Circle was
\* copied into yields Shape's output and not the output of the derived class
C2_Slicing ==
    ValuePopulated =>
      \A k \in 1..Len(out) :
         out[k].via = "value" =>
            LET src == objs[out[k].slot]
            IN /\ out[k].text = ShapeDraw(src)
               /\ src.cls # "Shape" => out[k].text # OwnDraw(src)

\* C2 witness: a Circle was copied into a value slot and drawn through it
C2_Witness ==
    /\ ValuePopulated
    /\ \E k \in 1..Len(out) :
         out[k].via = "value" /\ objs[out[k].slot].cls = "Circle"

\* how often block a occurs in the release log
Releases(a) == Cardinality({k \in 1..Len(released) : released[k].addr = a})

\* the programs that own Shape instances on the heap
Owning == prog \in {"collections", "overloading"}

\* C3: no owned instance is ever released twice, and when the owner has
\* been torn down every one of the N instances has been released exactly
\* once: N releases in all
C3_ReleasedOnce ==
    Owning =>
      /\ \A a \in 1..Len(heap) : Releases(a) <= 1
      /\ pc = "done" =>
           /\ Len(released) = Len(heap)
           /\ \A a \in 1..Len(heap) : Releases(a) = 1 /\ ~heap[a].alive

\* C3 witness: a collection of two instances has been torn down
C3_Witness == prog = "collections" /\ pc = "done" /\ Len(heap) = 2 /\ Len(released) = 2

\* C5 (as claimed): the instance of slot i is released before the instance
\* of slot j whenever i < j
C5_ElementOrder ==
    prog = "collections" =>
      \A p, q \in 1..Len(released) :
         p < q => released[p].slot < released[q].slot

\* C5 (amended): the instances are released in reverse element order, the
\* instance of slot j before the instance of slot i whenever i < j
C5_ReverseOrder ==
    prog = "collections" =>
      \A p, q \in 1..Len(released) :
         p < q => released[p].slot > released[q].slot

\* C5 witness: two instances of one collection have been released
C5_Witness == prog = "collections" /\ Len(released) >= 2

Handles ==
    (IF prog = "overloading" /\ Live(heap, ptr.addr)
     THEN {[st |-> ptr.st, obj |-> heap[ptr.addr].obj]} ELSE {})
    \cup (IF RawPopulated
          THEN {[st |-> "Shape", obj |-> objs[shapes3[k]]] : k \in 1..Len(shapes3)} ELSE {})
    \cup (IF SharedPopulated
          THEN {[st |-> "Shape", obj |-> heap[shapes4[k]].obj] : k \in 1..Len(shapes4)} ELSE {})

C8_IterationOrder ==
    SharedPopulated =>
      LET sh == Through("shared")
      IN /\ Len(sh) = idx - 1
         /\ \A k \in 1..Len(sh) :
              /\ sh[k].slot = k
              /\ sh[k].text = OwnDraw(heap[shapes4[k]].obj)

\* C8 witness: an Oval and a Circle side by side were both drawn
C8_Witness ==
    /\ SharedPopulated
    /\ Len(Through("shared")) = 2
    /\ {heap[shapes4[1]].obj.cls, heap[shapes4[2]].obj.cls} = {"Oval", "Circle"}

\* a step that wrote the output of a draw call
DrawStep ==
    /\ Len(out') > Len(out)
    /\ out'[Len(out')].via \in {"value", "raw", "shared", "ptr", "ref", "new", "object",
                               "qualified", "sptr", "optr", "sref", "cref", "oref"}

\* C10: a step that calls draw() leaves the instances, the collections and
\* the ownership state as they were
C10_DrawFrame ==
    [][DrawStep => UNCHANGED <<objs, shapes1, shapes3, shapes4, heap, released>>]_vars

\* C10 witness: draw() was called through a value slot, a raw pointer and a
\* shared handle
C10_Witness ==
    /\ SharedPopulated
    /\ Through("value") # <<>> /\ Through("raw") # <<>> /\ Through("shared") # <<>>

\* the static-binding program has constructed shape1, oval1 and circle1
Static3 == prog = "static" /\ Len(objs) = 3

\* the name an object constructed from arguments a has
ArgName(a) == IF a.dflt THEN "unnamed" ELSE a.label

\* the two radii an Oval or Circle constructed from arguments a has
ArgX(a) == a.dims[1]
ArgY(a) == IF a.cls = "Circle" THEN a.dims[1] ELSE a.dims[2]

\* every object the current state stores, on the stack, in an array or on the heap
Stored ==
    {objs[k] : k \in 1..Len(objs)}
      \cup (IF prog \in {"collections", "slicing", "static"}
            THEN {shapes1[k] : k \in 1..Len(shapes1)} ELSE {})
      \cup (IF prog \in {"collections", "overloading"}
            THEN {heap[a].obj : a \in 1..Len(heap)} ELSE {})

\* C11: a Circle constructed with radius r, called through an Oval pointer,
\* reports x radius r and y radius r, and the two fields of every Circle
\* stay equal as long as it exists
C11_CircleAsOval ==
    /\ \A o \in Stored : o.cls = "Circle" => o.xr = o.yr
    /\ (prog = "static" /\ pc \in {"l46", "l50", "l54", "l58", "done"}) =>
         LET op == Through("optr")
         IN /\ Len(op) = 2
            /\ op[2].slot = 3
            /\ op[2].text = <<"Oval::draw", ArgName(args[3]), args[3].dims[1], args[3].dims[1]>>

\* C11 witness: circle1 was drawn through the Oval pointer
C11_Witness == prog = "static" /\ pc = "l46" /\ args[3].dims[1] = 3 /\ args[2].dims # <<3, 3>>

\* the static type of the handle an entry of the static-binding program was
\* written through
StaticOf(e) ==
    CASE e.via = "object" -> args[e.slot].cls
      [] e.via \in {"sptr", "sref"} -> "Shape"
      [] e.via \in {"optr", "oref"} -> "Oval"
      [] e.via = "cref" -> "Circle"

\* C12: for one and the same instance the draw() of a class and the draw()
\* of its parent give different outputs, so the output tells which one ran
C12_Distinguishable ==
    /\ \A o \in Stored : \A c1, c2 \in Classes :
         (IsBaseOf(c1, o.cls) /\ IsBaseOf(c2, o.cls) /\ c1 # c2)
            => DrawBody(c1, o) # DrawBody(c2, o)
    /\ prog = "static" =>
         \A j, k \in 1..Len(out) :
            (out[j].slot = out[k].slot /\ StaticOf(out[j]) # StaticOf(out[k]))
               => out[j].text # out[k].text

\* C12 witness: circle1 was drawn as a Circle, as an Oval and as a Shape
C12_Witness ==
    /\ prog = "static" /\ pc = "l50"
    /\ {StaticOf(out[k]) : k \in {k \in 1..Len(out) : out[k].slot = 3}} = Classes

\* the entries that Oval's draw() wrote in the static-binding program
OvalEntries == {k \in 1..Len(out) : StaticOf(out[k]) = "Oval"}

\* C13: the output of Oval's draw() holds the name and both radii of the
\* instance, for every instance it is called on
C13_OvalDims ==
    prog = "static" =>
      /\ \A k \in OvalEntries :
            out[k].text = <<"Oval::draw", ArgName(args[out[k].slot]),
                            ArgX(args[out[k].slot]), ArgY(args[out[k].slot])>>
      /\ pc \in {"l54", "l58", "done"} => \E k \in OvalEntries : out[k].via = "oref"

\* C13 witness: an Oval with unequal radii was drawn directly, through the
\* pointer and through draw_oval
C13_Witness ==
    /\ prog = "static" /\ pc = "l54"
    /\ args[2].dims[1] # args[2].dims[2]
    /\ {out[k].via : k \in OvalEntries} = {"object", "optr", "oref"}

\* C14: a default-constructed Shape is named "unnamed"; an object
\* constructed with a label has exactly that label as its name, and draw()
\* prints it
C14_Names ==
    prog = "static" =>
      /\ \A k \in 1..Len(objs) :
            /\ args[k].dflt => objs[k].name = "unnamed"
            /\ ~args[k].dflt => objs[k].name = args[k].label
      /\ \A k \in 1..Len(out) : out[k].text[2] = ArgName(args[out[k].slot])

\* C14 witness: shape1 was default-constructed, the others were labelled,
\* and all three were drawn
C14_Witness ==
    /\ prog = "static" /\ pc = "l29"
    /\ args[1].dflt /\ ~args[2].dflt /\ ~args[3].dflt

\* C15: an Oval or Circle constructed with a zero or negative radius is
\* constructed without an error and stores and reports the radii as given
C15_NonPositive ==
    prog = "static" =>
      /\ pc # "rejected"
      /\ \A k \in 1..Len(out) : out[k].via # "error"
      /\ Len(objs) = Len(args) \/ objs = <<>>
      /\ \A k \in 2..Len(objs) :
            /\ objs[k].xr = ArgX(args[k])
            /\ objs[k].yr = ArgY(args[k])
      /\ \A k \in 1..Len(out) :
            out[k].via = "object" =>
               CASE out[k].slot = 1 -> TRUE
                 [] out[k].slot = 2 -> out[k].text[3] = args[2].dims[1] /\ out[k].text[4] = args[2].dims[2]
                 [] out[k].slot = 3 -> out[k].text[3] = args[3].dims[1]

\* C15 witness: an Oval with a zero radius and a Circle with a negative
\* radius were constructed and drawn
C15_Witness ==
    /\ prog = "static" /\ pc = "l29"
    /\ args[2].dims[1] = 0 /\ args[3].dims[1] < 0
    /\ Len(out) = 3

\* C16: storing objects in a by-value Shape array never fails, whatever
\* their classes, and every slot then holds a plain Shape
C16_StoreSucceeds ==
    prog \in {"collections", "slicing"} =>
      /\ pc # "rejected"
      /\ \A k \in 1..Len(out) : out[k].via # "error"
      /\ (prog = "collections" /\ pc \notin {"start", "slice", "done"}) => Len(shapes1) = Len(objs)
      /\ (prog = "slicing" /\ pc \in {"l26", "l28"}) => Len(shapes1) = 1
      /\ \A k \in 1..Len(shapes1) :
            shapes1[k].cls = "Shape" /\ shapes1[k].xr = NoDim /\ shapes1[k].yr = NoDim

\* C16 witness: an Oval and a Circle were stored in the value array
C16_Witness ==
    /\ prog = "collections" /\ pc = "iter1" /\ Len(objs) = 2
    /\ {objs[1].cls, objs[2].cls} = {"Oval", "Circle"}

SlotReady(e) ==
    CASE e.via = "value" -> e.slot \in 1..Len(shapes1)
      [] e.via = "raw" -> e.slot \in 1..Len(shapes3) /\ shapes3[e.slot] \in 1..Len(objs)
      [] e.via = "shared" -> e.slot \in 1..Len(shapes4) /\ Live(heap, shapes4[e.slot])
      [] e.via = "new" -> Live(heap, e.slot)
      [] e.via \in {"int", "error", "hit", "count", "badhit", "badcount", "double"} -> TRUE
      [] OTHER -> e.slot \in 1..Len(objs)

\* the collections are being torn down or are gone
Drained == pc \in {"teardown4", "done"}

\* nothing is left of the collections and no instance is live
NoLive ==
    /\ objs = <<>> /\ shapes1 = <<>> /\ shapes3 = <<>> /\ shapes4 = <<>>
    /\ \A a \in 1..Len(heap) : ~heap[a].alive

\* C18: draw() is called on a slot only while the slot is populated and not
\* yet drained, nothing is drawn once the drain began, and after the drain
\* no collection holds a live instance
C18_Lifecycle ==
    /\ [][/\ \A k \in (Len(out) + 1)..Len(out') : SlotReady(out'[k])
          /\ Drained => out' = out]_vars
    /\ []((prog # "dangling" /\ pc = "done") => NoLive)

\* C18 witness: the three arrays were populated, iterated and drained
C18_Witness ==
    /\ prog = "collections" /\ pc = "done"
    /\ Through("value") # <<>> /\ Through("raw") # <<>> /\ Through("shared") # <<>>
    /\ Len(released) = 2

\* C19: without virtual, a call through a Shape pointer or reference runs
\* Shape's draw() on the object (printing the object's name), and a call
\* through an Oval pointer runs Oval's draw(), whatever the object's class
C19_StaticBinding ==
    Static3 =>
      \A k \in 1..Len(out) :
         /\ out[k].via \in {"sptr", "sref"} => out[k].text = ShapeDraw(objs[out[k].slot])
         /\ out[k].via = "optr" => out[k].text = OvalDraw(objs[out[k].slot])

\* C19 witness: an Oval and a Circle were drawn through Shape handles and
\* the Circle through the Oval pointer
C19_Witness ==
    /\ Static3 /\ pc = "l50"
    /\ \E k \in 1..Len(out) : out[k].via = "sptr" /\ out[k].slot = 2
    /\ \E k \in 1..Len(out) : out[k].via = "sref" /\ out[k].slot = 3
    /\ \E k \in 1..Len(out) : out[k].via = "optr" /\ out[k].slot = 3

\* C20: with virtual draw() a call through a Shape reference and a call
\* through a Shape pointer to the same object write the same output, the
\* object's own, also inside draw_shape and draw_shape_v1
C20_RefEqualsPtr ==
    (prog = "virtual" /\ objs # <<>>) =>
      /\ \A k \in 1..Len(out) :
            out[k].via \in {"ptr", "ref"} => out[k].text = OwnDraw(objs[out[k].slot])
      /\ \A j, k \in 1..Len(out) :
            (out[j].via = "ptr" /\ out[k].via = "ref" /\ out[j].slot = out[k].slot)
               => out[j].text = out[k].text
      /\ pc \in {"l42", "l50"} =>
            /\ Len(out) >= 6
            /\ out[5].via = "ptr" /\ out[5].slot = 3
            /\ out[6].via = "ref" /\ out[6].slot = 3

\* C20 witness: circle1 was drawn through the pointer, the reference and
\* both helper functions
C20_Witness ==
    /\ prog = "virtual" /\ pc = "l42"
    /\ Cardinality({k \in 1..Len(out) : out[k].slot = 3}) = 4

\* the static type of the handle an entry of the overloading program was
\* written through: Shape * for shape_ptr, Oval * for shape_ptr2, the
\* object's declared class for a direct call, Oval for the qualified call
HandleType06(e) ==
    CASE e.via = "ptr" -> "Shape"
      [] e.via = "new" -> "Oval"
      [] e.via = "qualified" -> "Oval"
      [] e.via = "object" -> objs[e.slot].cls

\* C21: the overload is chosen by the static type of the handle and the
\* override by the object: draw(int) through a Shape pointer bound to an
\* Oval runs Shape's draw(int); draw(int, string) runs only through a handle
\* of static type Oval (a pointer, an object, or a qualified call on a more
\* derived object); draw() through a Shape pointer runs the override of the
\* most-derived class of the object
C21_OverloadVsOverride ==
    (prog = "overloading" /\ Len(objs) >= 2) =>
      /\ \A k \in 1..Len(out) :
            LET e == out[k]
            IN /\ e.text[1] = "Oval::draw(int,string)" => HandleType06(e) = "Oval"
               /\ HandleType06(e) = "Shape" =>
                     \/ e.text = OwnDraw(objs[e.slot])
                     \/ e.text = <<"Shape::draw(int)", objs[e.slot].name, 24>>
      /\ pc \in {"l38", "l45", "l47", "l51"} =>
            /\ \E k \in 1..Len(out) :
                  out[k].via = "ptr" /\ out[k].text = CircleDraw(objs[1])
            /\ \E k \in 1..Len(out) :
                  out[k].via = "ptr" /\ out[k].text = OvalDraw(objs[2])
      /\ pc \in {"l45", "l47", "l51"} =>
            \E k \in 1..Len(out) :
               /\ out[k].via = "ptr" /\ objs[out[k].slot].cls = "Oval"
               /\ out[k].text[1] = "Shape::draw(int)"

\* C21 witness: all three kinds of call have run, the two-argument overload
\* also through a qualified call on a Circle
C21_Witness ==
    /\ prog = "overloading" /\ pc = "l51"
    /\ \E k \in 1..Len(out) : out[k].via = "qualified" /\ objs[out[k].slot].cls = "Circle"
    /\ \E k \in 1..Len(out) : out[k].via = "ptr" /\ out[k].text[1] = "Shape::draw(int)"
    /\ \E k \in 1..Len(out) : out[k].via = "ptr" /\ out[k].text[1] = "Circle::draw"

\* C22: in the dangling-pointer program no pointer is dereferenced after its
\* block was released: after p_number7 is deleted and reset the guarded
\* dereference is skipped and "Invalid memory access!" is reported;
\* p_number9 is dereferenced only while the master p_number8 is non-null,
\* and after the master is released the warning is reported instead
C22_GuardedAccess ==
    prog = "dangling" =>
      /\ \A k \in 1..Len(acc) : acc[k].outcome = "deref" => acc[k].live
      /\ \A k \in 1..Len(out) : out[k].text # <<"crash">>
      /\ pc \in {"l64", "l69", "l74", "l77", "l87", "done"} =>
            /\ ptr[7] = Null
            /\ \E k \in 1..Len(out) : out[k] = LogEntry("int", 7, <<"Invalid memory access!">>)
            /\ \A k \in 1..Len(out) : out[k].text[1] # "*p_number7"
      /\ pc \in {"l87", "done"} =>
            /\ ptr[8] = Null
            /\ acc[Len(acc)] = [p |-> 9, addr |-> ptr[9], live |-> FALSE, outcome |-> "reported"]
            /\ out[Len(out)] = LogEntry("int", 9, <<"WARNING : Trying to use an invalid pointer">>)
            /\ Cardinality({k \in 1..Len(out) : out[k].text[1] = "p_number9"}) = 1

\* C22 witness: both blocks were released and both guarded uses have run
C22_Witness ==
    /\ prog = "dangling" /\ pc = "l87" /\ Len(released) = 2
    /\ Cardinality({k \in 1..Len(acc) : acc[k].outcome = "reported"}) = 2

\* C29: a by-value base slot populated from a derived object holds the name
\* of its source, and the dimensions of the source are not reachable through
\* the slot: what the slot draws is Shape's output with the source's name
C29_SlicedName ==
    ValuePopulated =>
      /\ \A k \in 1..Len(shapes1) :
            /\ shapes1[k].name = objs[k].name
            /\ CallDraw("Shape", shapes1[k]) = <<"Shape::draw", objs[k].name>>
      /\ \A k \in 1..Len(out) :
            out[k].via = "value" =>
               /\ Len(out[k].text) = 2
               /\ out[k].text[2] = objs[out[k].slot].name

\* C29 witness: an Oval with unequal radii was sliced and drawn through the slot
C29_Witness ==
    /\ prog = "slicing" /\ pc = "l28"
    /\ objs[1].cls = "Oval" /\ objs[1].xr # objs[1].yr
    /\ Through("value") # <<>>

\* C30: copying the objects into the value array and iterating it leaves the
\* originals as they were constructed: a later draw() through a base pointer
\* to an original runs the most-derived implementation with the original
\* name and dimensions
C30_OriginalIntact ==
    prog = "collections" =>
      /\ pc \notin {"start", "done"} => objs = args
      /\ RawPopulated =>
            \A k \in 1..Len(out) :
               out[k].via = "raw" =>
                  /\ Len(Through("value")) = Len(args)
                  /\ out[k].text = OwnDraw(args[shapes3[out[k].slot]])

\* C30 witness: after the value array was iterated a Circle and an Oval were
\* drawn through the raw pointers to the originals
C30_Witness ==
    /\ RawPopulated /\ prog = "collections"
    /\ Len(Through("value")) = 2
    /\ {out[k].text[1] : k \in {j \in 1..Len(out) : out[j].via = "raw"}}
          = {"Circle::draw", "Oval::draw"}

\* the allocations of the allocation-failure program that succeeded so far:
\* one heap block each
Succeeded == Len(heap)

\* C23: in the allocation-failure program, for the throwing and the nothrow
\* form alike: when the allocation fails the pointer stays null, nothing is
\* released and the program goes on to its end; when it succeeds the block
\* is released exactly once and the pointer is reset to null
C23_AllocationFailure ==
    prog = "newfails" =>
      /\ pc \in {"start", "l20", "l32", "l33", "l44", "done"}
      /\ \A k \in 1..Len(released) : released[k].addr \in 1..Len(heap)
      /\ \A a \in 1..Len(heap) : Releases(a) <= 1
      /\ \A k \in 1..Len(out) : out[k].text # <<"crash">>
      /\ pc = "l20" =>
            IF out[1].text = <<"Something went wrong (exception): ">>
            THEN ptr[1] = Null /\ heap = <<>>
            ELSE Live(heap, ptr[1])
      /\ pc = "l33" =>
            (ptr[2] = Null \/ (Live(heap, ptr[2]) /\ Releases(ptr[2]) = 0))
      /\ pc \in {"l32", "l33", "l44", "done"} =>
            /\ ptr[1] = Null
            /\ IF out[1].text = <<"Something went wrong (exception): ">>
               THEN /\ out[2].text = <<"data1 not allocated so not need to delete">>
                    /\ pc \in {"l32", "l33"} => released = <<>>
               ELSE /\ out[2].text = <<"data1 deleted">>
                    /\ Releases(1) = 1 /\ ~heap[1].alive
      /\ pc \in {"l44", "done"} =>
            /\ ptr[2] = Null
            /\ Len(out) = 3
            /\ Len(released) = Succeeded
            /\ \A a \in 1..Len(heap) : Releases(a) = 1 /\ ~heap[a].alive
            /\ out[3].text = <<"data2 allocation failed (nothrow).">> =>
                  \A k \in 1..Len(released) : out[2].text = <<"data1 deleted">> /\ k = 1

\* C23 witness: the throwing allocation failed, the nothrow allocation
\* succeeded, and the program reached its end
C23_Witness ==
    /\ prog = "newfails" /\ pc = "done"
    /\ out[1].text = <<"Something went wrong (exception): ">>
    /\ out[3].text = <<"data2 allocated successfully using nothrow.">>
    /\ Len(released) = 1

\* the dynamic-allocation program has ended: main returned or the run-time
\* aborted the program
Ended04 == prog = "dynalloc" /\ pc \in {"done", "aborted"}

\* C24 (as claimed): in the dynamic-allocation program no block is released
\* twice, no pointer is dereferenced after its block was released, and when
\* the program has ended every block it obtained has been released exactly
\* once, the blocks a reused pointer variable held before included
C24_EveryBlockReleasedOnce ==
    prog = "dynalloc" =>
      /\ \A a \in 1..Len(heap) : Releases(a) <= 1
      /\ \A k \in 1..Len(acc) : acc[k].outcome = "deref" => acc[k].live
      /\ Ended04 => \A a \in 1..Len(heap) : Releases(a) = 1 /\ ~heap[a].alive

\* C25 (as claimed): every block of the dynamic-allocation program is
\* released with the form of delete that matches the form of new it was
\* obtained with
C25_MatchingForm ==
    prog = "dynalloc" =>
      \A k \in 1..Len(released) : released[k].form = heap[released[k].addr].form

\* the positions of the target in the string of the search program
Occurrences == {i \in 1..Len(args.str) : args.str[i] = args.target}

\* the position of the last occurrence, 0 when there is none
LastOccurrence ==
    IF Occurrences = {} THEN 0
    ELSE CHOOSE i \in Occurrences : \A j \in Occurrences : j <= i

\* the literal is searched for 'T'
LiteralCase == args.str = Literal /\ args.target = "T"

\* what the first loop has reported so far is right: each report is an
\* occurrence, positions increase; once the loop has ended every occurrence
\* was reported and the count is the number of occurrences, 2 for the literal
GoodLoop ==
    pc # "start" =>
      LET hits == Through("hit")
      IN /\ \A k \in 1..Len(hits) : hits[k].slot \in Occurrences
         /\ \A j, k \in 1..Len(hits) : j < k => hits[j].slot < hits[k].slot
         /\ pc = "l112" => idx = Len(hits)
         /\ pc # "l112" =>
               /\ {hits[k].slot : k \in 1..Len(hits)} = Occurrences
               /\ Len(hits) = Cardinality(Occurrences)
               /\ pc # "l119" => Through("count") = <<LogEntry("count", 0, <<"iterations", Len(hits)>>)>>
               /\ pc = "l119" => idx = Len(hits)
               /\ LiteralCase => Len(hits) = 2

\* C26: the search loop that restarts at result + 1 after each hit
\* terminates, reports each occurrence of the target exactly once in
\* increasing order of position, and its iteration count is the number of
\* occurrences (2 for 'T' in the literal)
C26_SearchLoop == []GoodLoop /\ <>(pc \notin {"start", "l112"})

\* C26 witness: the loop has ended on the literal after two iterations
C26_Witness == prog = "search" /\ pc = "l119" /\ LiteralCase /\ idx = 2

\* what the bad version has reported so far: one report per start position,
\* in order; once it has ended there was one iteration per start position at
\* or before the last occurrence, 25 for the literal
BadLoop ==
    pc \in {"l130", "l139", "l154", "done"} =>
      LET hits == Through("badhit")
      IN /\ \A k \in 1..Len(hits) : hits[k].slot = k /\ k <= LastOccurrence
         /\ pc = "l130" => idx = Len(hits)
         /\ pc # "l130" =>
               /\ Len(hits) = LastOccurrence
               /\ pc # "l139" => Through("badcount") = <<LogEntry("badcount", 0, <<"iterations", LastOccurrence>>)>>
               /\ pc = "l139" => idx = LastOccurrence
               /\ LiteralCase => Len(hits) = 25

\* C27: the bad version of the search loop, which moves the start of the
\* string by one character per iteration, terminates after one iteration per
\* start position at or before the last occurrence of the target: exactly 25
\* iterations for 'T' in the literal
C27_BadLoop == []BadLoop /\ <>(pc \notin {"start", "l112", "l119", "l125", "l130"})

\* C27 witness: the bad version has ended on the literal after 25 iterations
C27_Witness == prog = "search" /\ pc = "l139" /\ LiteralCase /\ idx = 25

====
